---- MODULE Spec2Model ----
(***************************************************************************)
(* Journal-AI: the VoiceRecorder component (recording session) and the     *)
(* JournalEntry page (record -> upload -> transcribe -> respond pipeline). *)
(*                                                                         *)
(* Spec     : the VoiceRecorder component, driven by clicks, by the        *)
(*            browser's getUserMedia / MediaRecorder events and by React   *)
(*            unmounting it.                                               *)
(* SpecPage : the JournalEntry page's credential handling and              *)
(*            handleRecordingComplete.                                     *)
(*                                                                         *)
(* React state is read as of the latest render, except where a closure     *)
(* keeps the value of the render that created it: mediaRecorder.onstop     *)
(* reads the isRecording of the render whose startRecording was clicked,   *)
(* which the model keeps per session (field captured).                     *)
(***************************************************************************)
EXTENDS Integers, Sequences, FiniteSets, TLC

(* ------------------------------ bounds --------------------------------- *)
MaxSessions == 2      \* start() calls in one behaviour
MaxChunks == 2        \* timeslice chunks buffered before the final one
MaxTime == 3          \* cap of the elapsed-seconds counter
MaxCalls == 2         \* handleRecordingComplete invocations in one behaviour
MaxKeyLen == 2        \* characters typed into the credential input
MaxSaves == 1         \* saveJournal calls in one behaviour
MaxEntryCalls == 1    \* handleRecordingComplete invocations beside the saves
MaxDeletes == 1       \* confirmed deleteJournal calls in one behaviour

SessionIds == 1..MaxSessions
NoSession == 0
CallIds == 1..MaxCalls
SaveIds == 1..MaxSaves
EntryCallIds == 1..MaxEntryCalls
DeleteIds == 1..MaxDeletes

VARIABLES
  \* ---- VoiceRecorder ----
  mounted,            \* the component is mounted
  platform,           \* what the browser's MediaRecorder supports
  isRecording,        \* useState isRecording
  recordingTime,      \* useState recordingTime
  streamRef,          \* streamRef.current: session whose stream it holds, or 0
  mediaRecorderRef,   \* mediaRecorderRef.current: session whose encoder, or 0
  intervalRef,        \* intervalRef.current: session whose timer id, or 0
  chunksRef,          \* chunksRef.current: sequence of chunks (origin session)
  sessions,           \* per start() call: browser objects and history
  artifacts,          \* arguments of the onRecordingComplete calls, in order
  lastOp,             \* the handler that ran last
  \* ---- JournalEntry page ----
  pageState,          \* mounting (before the effect), loading, ready, left
  openaiKey,          \* useState openaiKey
  storedKey,          \* localStorage 'openai_api_key'
  showKeyInput,       \* useState showKeyInput
  isProcessing,       \* useState isProcessing
  saving,             \* useState saving
  messages,           \* useState messages (displayed conversation)
  dbMessages,         \* rows of journal_messages, in insertion order
  storage,            \* objects in the journal-assets bucket
  calls,              \* per handleRecordingComplete invocation: position, locals
  toasts,             \* toasts shown: who showed which
  journal,            \* useState journal (the row as it was loaded)
  title,              \* useState title
  dbJournal,          \* the entry's row in journals
  saves,              \* per saveJournal call: position, locals, requests
  deletes             \* per deleteJournal call: position, requests

recVars == <<mounted, platform, isRecording, recordingTime, streamRef,
             mediaRecorderRef, intervalRef, chunksRef, sessions, artifacts, lastOp>>
saveVars == <<journal, title, dbJournal, saves>>
pageVars == <<pageState, openaiKey, storedKey, showKeyInput, isProcessing, saving,
              messages, dbMessages, storage, calls, toasts, saveVars, deletes>>
vars == <<recVars, pageVars>>

(* --------------------------- VoiceRecorder ----------------------------- *)

Platforms == {"ok", "ctorThrows", "startThrows"}

NewSession ==
  [phase |-> "none",        \* none, requesting, started, failed
   captured |-> FALSE,      \* isRecording as the onstop closure sees it
   stream |-> "none",       \* none, live, released
   releases |-> 0,          \* times the stream's tracks were stopped
   rec |-> "none",          \* MediaRecorder.state: none, inactive, recording
   stopTask |-> FALSE,      \* the task queued by MediaRecorder.stop() is pending
   settled |-> FALSE,       \* the onstop handler has run
   timer |-> "none",        \* none, active, cleared
   stopBy |-> "none",       \* who called stop() on the encoder
   stopInvoked |-> FALSE,   \* stopRecording ran while this was the encoder in the ref
   cancelInvoked |-> FALSE, \* cancelRecording ran while this was the encoder in the ref
   tornDown |-> FALSE,      \* unmounted while this was the encoder in the ref
   emits |-> 0]             \* onRecordingComplete calls made by its onstop

\* setState on an unmounted component has no effect
SetState(old, new) == IF mounted THEN new ELSE old

\* (a cleanup that forgets to stop the tracks)
ReleaseStreamSkipped(ss, sref) == ss

\* cleanup(), lines 26-29
ReleaseStream(ss, sref) ==
  IF sref # NoSession
    THEN [ss EXCEPT ![sref].stream = "released", ![sref].releases = @ + 1]
    ELSE ss

\* (a cleanup that leaves the released stream in the ref)
StreamRefKept(sref) == sref

\* cleanup(), line 28: streamRef.current = null
StreamRefAfterCleanup(sref) == NoSession

\* (a cleanup that forgets clearInterval)
ClearTimerSkipped(ss, iref) == ss

\* cleanup(), lines 30-32
ClearTimer(ss, iref) ==
  IF iref # NoSession /\ ss[iref].timer = "active"
    THEN [ss EXCEPT ![iref].timer = "cleared"]
    ELSE ss

\* mediaRecorderRef.current && mediaRecorderRef.current.state === 'recording'
RecorderIsRecording(ss, mref) == mref # NoSession /\ ss[mref].rec = "recording"

\* MediaRecorder.stop(): the state becomes inactive at once and a task is
\* queued that fires dataavailable and then stop
StopRecorder(ss, mref, by) ==
  IF RecorderIsRecording(ss, mref)
    THEN [ss EXCEPT ![mref].rec = "inactive", ![mref].stopTask = TRUE,
                    ![mref].stopBy = by]
    ELSE ss

\* cleanup(), lines 25-39, on the browser objects
CleanupSessions(ss, sref, iref, mref, by) ==
  StopRecorder(ClearTimer(ReleaseStream(ss, sref), iref), mref, by)

\* cleanup(), lines 25-39, run with the refs as they are
Cleanup(ss, sref, iref, mref, by) ==
  /\ sessions' = CleanupSessions(ss, sref, iref, mref, by)
  /\ streamRef' = StreamRefAfterCleanup(sref)
  /\ isRecording' = FALSE
  /\ recordingTime' = 0
  /\ chunksRef' = <<>>

\* No session is in progress: nothing requested, held, encoding, ticking or queued
Idle ==
  /\ ~isRecording
  /\ \A s \in SessionIds :
       /\ sessions[s].phase # "requesting"
       /\ sessions[s].stream # "live"
       /\ sessions[s].rec # "recording"
       /\ sessions[s].timer # "active"
       /\ ~sessions[s].stopTask

\* lastOp names the handler that ran last when it is one whose outcome is
\* observed (a failed start, onstop, the unmount, a stop or cancel while
\* Idle, a tick of a session's interval)
\* (for onstop, n is the length of the buffer its guard saw)
Op(name, s) == [op |-> name, sid |-> s, n |-> 0]
Other == Op("other", NoSession)

\* <VoiceRecorder ... disabled={isProcessing} />, and the button's disabled={disabled}
Disabled == isProcessing

\* onClick of the record button while it shows the microphone:
\* startRecording up to the await of getUserMedia
StartRecording ==
  /\ mounted /\ ~Disabled /\ ~isRecording
  /\ \E s \in SessionIds :
       /\ sessions[s].phase = "none"
       /\ \A t \in SessionIds : t < s => sessions[t].phase # "none"
       /\ sessions' = [sessions EXCEPT ![s].phase = "requesting",
                                       ![s].captured = isRecording]
       /\ lastOp' = Other
  /\ UNCHANGED <<mounted, platform, isRecording, recordingTime, streamRef,
                 mediaRecorderRef, intervalRef, chunksRef, artifacts, pageVars>>

\* getUserMedia rejects (permission denied, no device): catch, cleanup()
GetUserMediaRejected(s) ==
  /\ sessions[s].phase = "requesting"
  /\ Cleanup([sessions EXCEPT ![s].phase = "failed"],
             streamRef, intervalRef, mediaRecorderRef, "error")
  /\ lastOp' = Op("failed", s)
  /\ UNCHANGED <<mounted, platform, mediaRecorderRef, intervalRef,
                 artifacts, pageVars>>

\* getUserMedia resolves: the rest of startRecording, lines 44-70
GetUserMediaGranted(s) ==
  /\ sessions[s].phase = "requesting"
  /\ LET held == [sessions EXCEPT ![s].stream = "live"]
     IN CASE platform = "ctorThrows" ->
               \* new MediaRecorder(stream) throws after streamRef was set
               /\ Cleanup([held EXCEPT ![s].phase = "failed"],
                          s, intervalRef, mediaRecorderRef, "error")
               /\ lastOp' = Op("failed", s)
               /\ UNCHANGED <<mediaRecorderRef, intervalRef>>
          [] platform = "startThrows" ->
               \* mediaRecorder.start() throws after both refs were set
               /\ Cleanup([held EXCEPT ![s].phase = "failed", ![s].rec = "inactive"],
                          s, intervalRef, s, "error")
               /\ mediaRecorderRef' = s
               /\ lastOp' = Op("failed", s)
               /\ UNCHANGED intervalRef
          [] OTHER ->
               /\ sessions' = [held EXCEPT ![s].phase = "started",
                                           ![s].rec = "recording",
                                           ![s].timer = "active"]
               /\ streamRef' = s
               /\ mediaRecorderRef' = s
               /\ intervalRef' = s
               /\ chunksRef' = <<>>
               /\ isRecording' = SetState(isRecording, TRUE)
               /\ recordingTime' = SetState(recordingTime, 0)
               /\ lastOp' = Other
  /\ UNCHANGED <<mounted, platform, artifacts, pageVars>>

\* The encoder of session s delivers a timeslice chunk (start(1000)):
\* ondataavailable keeps it when it is not empty
DataAvailable(s) ==
  /\ sessions[s].rec = "recording"
  /\ Len(chunksRef) < MaxChunks
  /\ \E size \in {0, 1} :
       chunksRef' = IF size > 0 THEN Append(chunksRef, s) ELSE chunksRef
  /\ lastOp' = Other
  /\ UNCHANGED <<mounted, platform, isRecording, recordingTime, streamRef,
                 mediaRecorderRef, intervalRef, sessions, artifacts, pageVars>>

\* The interval of session s fires: setRecordingTime(prev => prev + 1)
Tick(s) ==
  /\ sessions[s].timer = "active"
  /\ mounted
  /\ recordingTime < MaxTime
  /\ recordingTime' = recordingTime + 1
  /\ lastOp' = Op("tick", s)
  /\ UNCHANGED <<mounted, platform, isRecording, streamRef, mediaRecorderRef,
                 intervalRef, chunksRef, sessions, artifacts, pageVars>>

\* (a stopRecording that calls stop() on whatever encoder the ref holds)
StopWhateverIsSet(ss, mref) ==
  IF mref # NoSession
    THEN [ss EXCEPT ![mref].rec = "inactive", ![mref].stopTask = TRUE,
                    ![mref].stopBy = "stop"]
    ELSE ss

\* stopRecording, lines 79-81: stop() only an encoder that is recording
StopIfRecording(ss, mref) == StopRecorder(ss, mref, "stop")

\* stopRecording, lines 78-82
StopRecording ==
  /\ mounted
  /\ LET m == mediaRecorderRef
         noted == IF m # NoSession /\ sessions[m].phase = "started" /\ ~sessions[m].settled
                    THEN [sessions EXCEPT ![m].stopInvoked = TRUE]
                    ELSE sessions
     IN sessions' = StopIfRecording(noted, m)
  /\ lastOp' = IF Idle THEN Op("stopIdle", NoSession) ELSE Other
  /\ UNCHANGED <<mounted, platform, isRecording, recordingTime, streamRef,
                 mediaRecorderRef, intervalRef, chunksRef, artifacts, pageVars>>

\* cancelRecording, lines 84-87
CancelRecording ==
  /\ mounted
  /\ LET m == mediaRecorderRef
         noted == IF m # NoSession /\ sessions[m].phase = "started" /\ ~sessions[m].settled
                    THEN [sessions EXCEPT ![m].cancelInvoked = TRUE]
                    ELSE sessions
     IN Cleanup(noted, streamRef, intervalRef, m, "cancel")
  /\ lastOp' = IF Idle THEN Op("cancelIdle", NoSession) ELSE Other
  /\ UNCHANGED <<mounted, platform, mediaRecorderRef, intervalRef,
                 artifacts, pageVars>>

\* (an onstop that tests the buffer only)
OnStopGuardChunksOnly(captured, chunks) == Len(chunks) > 0

\* (an onstop that is told the recording was never cancelled)
OnStopGuardAlwaysRecording(captured, chunks) == TRUE /\ Len(chunks) > 0

\* mediaRecorder.onstop, line 57: the closure's isRecording and the buffer
OnStopGuard(captured, chunks) == captured /\ Len(chunks) > 0

\* The task queued by stop() on the encoder of session s: the final
\* dataavailable (lines 49-53), then onstop (lines 55-62)
RecorderStopTask(s) ==
  /\ sessions[s].stopTask
  /\ \E size \in {0, 1} :
       LET chunks == IF size > 0 THEN Append(chunksRef, s) ELSE chunksRef
           emit == OnStopGuard(sessions[s].captured, chunks)
           ran == [sessions EXCEPT ![s].stopTask = FALSE,
                                   ![s].settled = TRUE,
                                   ![s].emits = IF emit THEN @ + 1 ELSE @]
       IN /\ artifacts' = IF emit
                            THEN Append(artifacts, [sid |-> s, blob |-> chunks])
                            ELSE artifacts
          /\ Cleanup(ran, streamRef, intervalRef, mediaRecorderRef, "settle")
          /\ lastOp' = [op |-> "onstop", sid |-> s, n |-> Len(chunks)]
  /\ UNCHANGED <<mounted, platform, mediaRecorderRef, intervalRef, pageVars>>

\* React unmounts the component: the effect's cleanup, lines 19-23
Unmount ==
  /\ mounted
  /\ mounted' = FALSE
  /\ LET m == mediaRecorderRef
         noted == IF RecorderIsRecording(sessions, m)
                    THEN [sessions EXCEPT ![m].tornDown = TRUE]
                    ELSE sessions
     IN Cleanup(noted, streamRef, intervalRef, m, "teardown")
  /\ lastOp' = Op("unmount", NoSession)
  /\ UNCHANGED <<platform, mediaRecorderRef, intervalRef, artifacts, pageVars>>

(* ------------------------- VoiceRecorder: claims ----------------------- *)

recCore == <<mounted, isRecording, recordingTime, streamRef, mediaRecorderRef,
             intervalRef, chunksRef, sessions, artifacts>>

Held == {s \in SessionIds : sessions[s].stream = "live"}

\* C1: a session that start() started and stopRecording stopped, with no
\* cancel and no teardown, and whose buffer is not empty when its
\* stop-completion handler runs, has had onRecordingComplete invoked exactly
\* once when that handler has run.
C1_StopEmitsOnce ==
  (lastOp.op = "onstop" /\ lastOp.n > 0 /\ mounted
     /\ sessions[lastOp.sid].stopBy = "stop"
     /\ ~sessions[lastOp.sid].cancelInvoked)
  => sessions[lastOp.sid].emits = 1

\* C2: a session on which cancelRecording was invoked never has
\* onRecordingComplete invoked, and its stream's tracks are stopped exactly
\* once, also after the second cleanup run by its stop-completion handler.
C2_CancelNoEmitReleaseOnce ==
  \A s \in SessionIds :
    sessions[s].cancelInvoked =>
      /\ sessions[s].emits = 0
      /\ sessions[s].releases = 1
      /\ \A i \in 1..Len(artifacts) : artifacts[i].sid # s

C2_Witness ==
  \E s \in SessionIds :
    /\ sessions[s].cancelInvoked
    /\ sessions[s].stopBy = "cancel"
    /\ sessions[s].settled
    /\ sessions[s].releases = 1

\* C3: onRecordingComplete is invoked only for a session whose encoder was
\* stopped by stopRecording and that was not cancelled; a session ended by
\* cancel, by a failed start or by teardown never has an artifact emitted.
C3_EmitOnlyAfterStop ==
  \A s \in SessionIds :
    /\ sessions[s].emits > 0 =>
         /\ sessions[s].phase = "started"
         /\ sessions[s].stopBy = "stop"
         /\ ~sessions[s].cancelInvoked
    /\ (sessions[s].phase = "failed"
          \/ sessions[s].stopBy \in {"cancel", "error", "teardown"})
         => sessions[s].emits = 0

C3_Witness ==
  \E s \in SessionIds :
    /\ sessions[s].stopBy \in {"cancel", "teardown"}
    /\ sessions[s].settled
    /\ sessions[s].emits = 0
    /\ artifacts = <<>>

\* C4: when stopRecording and cancelRecording were both invoked on a session
\* before its stop-completion handler ran, in either order, no artifact is
\* emitted for it, its stream is released and its timer cleared, and when the
\* handler has run the component is not recording, shows 0 and holds no stream.
C4_CancelWins ==
  \A s \in SessionIds :
    (sessions[s].stopInvoked /\ sessions[s].cancelInvoked) =>
      /\ sessions[s].emits = 0
      /\ sessions[s].stream = "released"
      /\ sessions[s].timer = "cleared"
      /\ sessions[s].rec = "inactive"
      /\ (lastOp.op = "onstop" /\ lastOp.sid = s) =>
           (~isRecording /\ recordingTime = 0 /\ streamRef = NoSession
              /\ chunksRef = <<>>)

C4_Witness ==
  \E s \in SessionIds :
    /\ sessions[s].stopInvoked /\ sessions[s].cancelInvoked
    /\ sessions[s].stopBy = "stop"
    /\ lastOp.op = "onstop" /\ lastOp.sid = s /\ lastOp.n > 0

\* C5: stopRecording or cancelRecording invoked while no session is in
\* progress changes nothing: isRecording, the counter, the refs, the streams,
\* encoders, timers and queued stop tasks, and the emitted artifacts.
C5_IdleStopCancelNoOp ==
  [][(Idle /\ (StopRecording \/ CancelRecording)) => UNCHANGED recCore]_vars

C5_Witness ==
  /\ lastOp.op \in {"stopIdle", "cancelIdle"}
  /\ \E s \in SessionIds : sessions[s].settled
  /\ ~isRecording /\ recordingTime = 0

\* C6: at most one acquired stream is held unreleased.
C6_AtMostOneStreamHeld == Cardinality(Held) <= 1

\* C7: when start() has failed (getUserMedia rejected, or the encoder could
\* not be created or started after the stream was acquired), the component is
\* not recording, the counter is 0, the buffer is empty, no stream is in the
\* ref and the stream that start() acquired is released.
C7_FailedStartResets ==
  lastOp.op = "failed" =>
    /\ sessions[lastOp.sid].phase = "failed"
    /\ ~isRecording
    /\ recordingTime = 0
    /\ chunksRef = <<>>
    /\ streamRef = NoSession
    /\ sessions[lastOp.sid].stream # "live"
    /\ sessions[lastOp.sid].rec # "recording"
    /\ sessions[lastOp.sid].timer # "active"

C7_Witness ==
  /\ lastOp.op = "failed"
  /\ sessions[lastOp.sid].stream = "released"
  /\ sessions[lastOp.sid].releases = 1

\* C8: a session that was recording when the component was unmounted has its
\* stream released and its timer cleared, and onRecordingComplete is never
\* invoked for it.
C8_TeardownReleases ==
  \A s \in SessionIds :
    sessions[s].tornDown =>
      /\ ~mounted
      /\ sessions[s].stream = "released"
      /\ sessions[s].timer = "cleared"
      /\ sessions[s].rec = "inactive"
      /\ sessions[s].emits = 0

C8_Witness ==
  \E s \in SessionIds :
    /\ sessions[s].tornDown
    /\ sessions[s].stopBy = "teardown"
    /\ sessions[s].settled

\* C9: when the stop-completion handler of a session stopped by stopRecording
\* has run, isRecording is false, the counter is 0, the buffer is empty, the
\* session's timer is cleared and its stream is released.
C9_StopSettlesIdle ==
  (lastOp.op = "onstop" /\ sessions[lastOp.sid].stopBy = "stop") =>
    /\ ~isRecording
    /\ recordingTime = 0
    /\ chunksRef = <<>>
    /\ sessions[lastOp.sid].timer = "cleared"
    /\ sessions[lastOp.sid].stream = "released"

\* the step in which the stop task of session s runs its onstop handler
OnStopRuns(s) == sessions[s].stopTask /\ ~sessions'[s].stopTask

\* C25: the onstop handler of an earlier session that runs while a newer
\* session is recording leaves the newer session alone: its stream, encoder
\* and timer, the chunk buffer and isRecording are as they were.
C25_StaleOnStopHarmless ==
  [][\A s, n \in SessionIds :
       (s < n /\ OnStopRuns(s) /\ sessions[n].rec = "recording"
              /\ mediaRecorderRef = n) =>
         /\ sessions'[n] = sessions[n]
         /\ streamRef' = streamRef
         /\ isRecording' = isRecording
         /\ recordingTime' = recordingTime
         /\ Len(chunksRef') >= Len(chunksRef)]_vars

\* what session s acquired is released: its stream is not live, its encoder
\* is not recording, its timer is not active
Released(s) ==
  /\ sessions[s].stream # "live"
  /\ sessions[s].rec # "recording"
  /\ sessions[s].timer # "active"

\* C26: when the component is unmounted while a start is awaiting
\* getUserMedia and the request is then granted, what that start acquired is
\* eventually released.
C26_GrantAfterTeardownReleased ==
  \A s \in SessionIds :
    []((~mounted /\ sessions[s].phase = "requesting") =>
         [](sessions[s].phase = "started" => <>Released(s)))

\* session s is the one recording: its encoder is in the ref and recording
Recording(s) ==
  /\ isRecording
  /\ mediaRecorderRef = s
  /\ sessions[s].rec = "recording"

\* C27: while a session is recording, recordingTime is the number of times
\* that session's interval has fired since its start succeeded: it is 0 when
\* the session starts recording, and from then on it changes only when that
\* session's interval fires, by one.
C27_ElapsedCountsTicks ==
  [][\A s \in SessionIds :
       /\ (~Recording(s) /\ Recording(s)') => recordingTime' = 0
       /\ (Recording(s) /\ Recording(s)' /\ recordingTime' # recordingTime) =>
            (lastOp' = Op("tick", s) /\ recordingTime' = recordingTime + 1)]_vars

\* the sessions whose interval has been set and not cleared
ActiveTimers == {s \in SessionIds : sessions[s].timer = "active"}

\* isRecording is false and no start is pending
NotRecordingNoStartPending ==
  /\ ~isRecording
  /\ \A s \in SessionIds : sessions[s].phase # "requesting"

\* C30: whenever isRecording is false and no start is pending, no tick timer
\* is active and the counter is 0; and at most one tick timer is active in
\* every reachable state.
C30_OneTimerNoneWhenIdle ==
  /\ Cardinality(ActiveTimers) <= 1
  /\ NotRecordingNoStartPending => (ActiveTimers = {} /\ recordingTime = 0)

\* C34: every artifact handed to onRecordingComplete holds at least one
\* chunk, and its chunks are chunks of the session whose onstop emitted it
\* (the buffer holds non-empty chunks only, in arrival order).
C34_ArtifactIsSessionBuffer ==
  \A i \in 1..Len(artifacts) :
    /\ Len(artifacts[i].blob) > 0
    /\ \A j \in 1..Len(artifacts[i].blob) : artifacts[i].blob[j] = artifacts[i].sid

\* an artifact has been emitted
C34_Emitted == artifacts # <<>>

(* --------------------------- JournalEntry page ------------------------- *)

\* Credentials are strings over a blank and a letter
Chars == {" ", "k"}
KeyInputs == UNION {[1..n -> Chars] : n \in 0..MaxKeyLen}
NoKey == <<>>

RECURSIVE TrimStart(_)
TrimStart(str) ==
  IF str # <<>> /\ Head(str) = " " THEN TrimStart(Tail(str)) ELSE str

RECURSIVE TrimEnd(_)
TrimEnd(str) ==
  IF str # <<>> /\ str[Len(str)] = " "
    THEN TrimEnd(SubSeq(str, 1, Len(str) - 1))
    ELSE str

\* String.prototype.trim
Trim(str) == TrimEnd(TrimStart(str))

Transcripts == {"hello"}          \* result.text of the transcription
Replies == {"Tell me more"}       \* choices[0].message.content of the reply

NoRequests == [upload |-> 0, transcribe |-> 0, insertUser |-> 0,
               generate |-> 0, insertAssistant |-> 0]

NewCall ==
  [pc |-> "none",            \* none, upload, transcribe, insertUser, generate,
                             \* insertAssistant, done
   noKey |-> FALSE,          \* it returned at the credential check
   failedAt |-> "none",      \* the step whose request failed, if one did
   publicUrl |-> <<>>,       \* getPublicUrl(fileName)
   transcript |-> "",        \* const transcript
   aiResponse |-> "",        \* const aiResponse
   reqs |-> NoRequests]      \* requests it has issued, per kind

FileName(c) == <<"file", c>>      \* `${user?.id}/${id}/${Date.now()}.webm`
PublicUrl(c) == <<"url", c>>

\* (a toast is shown by an invocation of handleRecordingComplete, or by 0:
\* another handler of the page)
NoUrl == <<>>

Toast(by, heading, description) ==
  [by |-> by, title |-> heading, description |-> description]

InFlight == {c \in CallIds : calls[c].pc \notin {"none", "done"}}

\* useEffect, lines 46-57: the stored credential is read
MountEffect ==
  /\ pageState = "mounting"
  /\ pageState' = "loading"
  /\ IF storedKey # NoKey
       THEN openaiKey' = storedKey /\ UNCHANGED showKeyInput
       ELSE showKeyInput' = TRUE /\ UNCHANGED openaiKey
  /\ UNCHANGED <<storedKey, isProcessing, saving, messages, dbMessages, storage,
                 calls, toasts, recVars, deletes, saveVars>>

\* fetchJournalData, lines 59-100, from the response on
FetchJournalDataDone ==
  /\ pageState = "loading"
  /\ \E ok \in BOOLEAN :
       IF ok
         THEN /\ pageState' = "ready"
              /\ journal' = dbJournal
              /\ title' = dbJournal.title
              /\ messages' = dbMessages
              /\ UNCHANGED toasts
         ELSE /\ pageState' = "left"
              /\ toasts' = toasts \cup {Toast(0, "Error", "Failed to load journal")}
              /\ UNCHANGED <<messages, journal, title>>
  /\ UNCHANGED <<openaiKey, storedKey, showKeyInput, isProcessing, saving, dbMessages,
                 storage, calls, recVars, deletes, dbJournal, saves>>

\* onChange of the credential input, line 526
ChangeKeyInput ==
  /\ pageState = "ready" /\ showKeyInput
  /\ \E v \in KeyInputs : v # openaiKey /\ openaiKey' = v
  /\ UNCHANGED <<pageState, storedKey, showKeyInput, isProcessing, saving, messages,
                 dbMessages, storage, calls, toasts, recVars, deletes, saveVars>>

\* (a saveApiKey that stores whatever was typed)
KeyAcceptedAlways(key) == TRUE

\* saveApiKey, line 103: openaiKey.trim() is truthy
KeyAccepted(key) == Trim(key) # NoKey

\* saveApiKey, lines 102-111
SaveApiKey ==
  /\ pageState = "ready" /\ showKeyInput
  /\ IF KeyAccepted(openaiKey)
       THEN /\ storedKey' = Trim(openaiKey)
            /\ showKeyInput' = FALSE
            /\ toasts' = toasts \cup {Toast(0, "API Key Saved",
                                            "Your OpenAI API key has been saved locally")}
       ELSE UNCHANGED <<storedKey, showKeyInput, toasts>>
  /\ UNCHANGED <<pageState, openaiKey, isProcessing, saving, messages, dbMessages,
                 storage, calls, recVars, deletes, saveVars>>

\* (a handler without the credential check)
KeyCheckSkipped(key) == FALSE

\* handleRecordingComplete, line 266: !openaiKey
KeyMissing(key) == key = NoKey

\* (a catch with no finally: the flags stay set)
FailedKeepsBusy(c, description) ==
  /\ toasts' = toasts \cup {Toast(c, "Error", description)}
  /\ UNCHANGED <<saving, isProcessing>>

\* catch and finally of handleRecordingComplete, lines 344-354
Failed(c, description) ==
  /\ toasts' = toasts \cup {Toast(c, "Error", description)}
  /\ saving' = FALSE
  /\ isProcessing' = FALSE

\* handleRecordingComplete is called with an artifact: lines 265-284, up to
\* the await of the upload. The caller is whoever holds the callback: the
\* page does not itself refuse a call while the prompt shows or while another
\* call is in flight.
HandleRecordingComplete(c) ==
  /\ pageState = "ready"
  /\ calls[c].pc = "none"
  /\ \A d \in CallIds : d < c => calls[d].pc # "none"
  /\ IF KeyMissing(openaiKey)
       THEN /\ toasts' = toasts \cup
                 {Toast(c, "API Key Required",
                        "Please enter your OpenAI API key to use AI features")}
            /\ showKeyInput' = TRUE
            /\ calls' = [calls EXCEPT ![c].pc = "done", ![c].noKey = TRUE]
            /\ UNCHANGED <<isProcessing, saving>>
       ELSE /\ isProcessing' = TRUE
            /\ saving' = TRUE
            /\ calls' = [calls EXCEPT ![c].pc = "upload", ![c].reqs.upload = @ + 1]
            /\ UNCHANGED <<toasts, showKeyInput>>
  /\ UNCHANGED <<pageState, openaiKey, storedKey, messages, dbMessages, storage, recVars, deletes, saveVars>>

\* A fetch settles in one of three ways: a response that is ok, a response
\* that is not ok, or a rejection (no network): the await then throws the
\* browser's TypeError, whose message does not name the request
FetchResults == {"ok", "http", "network"}

\* Error.message of what a failed fetch step throws: new Error(notOk) after
\* !response.ok (lines 126-128, 158-160), the browser's own otherwise
FetchErrorMessage(res, notOk) == IF res = "http" THEN notOk ELSE "Failed to fetch"

\* (an upload whose error is not looked at)
UploadNeverThrows(ok) == FALSE

\* line 286: if (uploadError) throw uploadError
UploadThrows(ok) == ~ok

\* no row: the entry is not in journals (and what useState(null) holds)
NoJournal == [title |-> "", status |-> "", summary |-> "", thumbnail_url |-> ""]

EntryExists == dbJournal # NoJournal

\* What an insert into journal_messages can answer: a row refers to its
\* entry, so the store refuses it once the entry is deleted
InsertAnswers == IF EntryExists THEN BOOLEAN ELSE {FALSE}

\* The upload answers: lines 286-294 and transcribeAudio up to its fetch
UploadDone(c) ==
  /\ calls[c].pc = "upload"
  /\ \E ok \in BOOLEAN :
       /\ storage' = IF ok THEN storage \cup {FileName(c)} ELSE storage
       /\ IF UploadThrows(ok)
            THEN /\ Failed(c, "upload failed")
                 /\ calls' = [calls EXCEPT ![c].pc = "done", ![c].failedAt = "upload"]
            ELSE /\ calls' = [calls EXCEPT ![c].pc = "transcribe",
                                           ![c].failedAt = IF ok THEN "none" ELSE "upload",
                                           ![c].publicUrl = PublicUrl(c),
                                           ![c].reqs.transcribe = @ + 1]
                 /\ UNCHANGED <<toasts, saving, isProcessing>>
  /\ UNCHANGED <<pageState, openaiKey, storedKey, showKeyInput, messages, dbMessages,
                 recVars, deletes, saveVars>>

\* The transcription answers: transcribeAudio lines 118-131, then lines 296-307
TranscribeDone(c) ==
  /\ calls[c].pc = "transcribe"
  /\ \E res \in FetchResults :
       IF res = "ok"
         THEN \E text \in Transcripts :
                /\ calls' = [calls EXCEPT ![c].pc = "insertUser",
                                          ![c].transcript = text,
                                          ![c].reqs.insertUser = @ + 1]
                /\ UNCHANGED <<toasts, saving, isProcessing>>
         ELSE /\ Failed(c, FetchErrorMessage(res, "Failed to transcribe audio"))
              /\ calls' = [calls EXCEPT ![c].pc = "done", ![c].failedAt = "transcribe"]
  /\ UNCHANGED <<pageState, openaiKey, storedKey, showKeyInput, messages, dbMessages,
                 storage, recVars, deletes, saveVars>>

\* (a user row that carries the audio reference of another invocation)
UserRowOtherAudio(c) ==
  [call |-> c, role |-> "user", content |-> calls[c].transcript,
   audio_url |-> PublicUrl(0), transcript |-> calls[c].transcript]

\* lines 299-305: the row of the user message
UserRow(c) ==
  [call |-> c, role |-> "user", content |-> calls[c].transcript,
   audio_url |-> calls[c].publicUrl, transcript |-> calls[c].transcript]

\* (an assistant row that repeats the transcript)
AssistantRowEcho(c) ==
  [call |-> c, role |-> "assistant", content |-> calls[c].transcript,
   audio_url |-> NoUrl, transcript |-> ""]

AssistantRow(c) ==
  [call |-> c, role |-> "assistant", content |-> calls[c].aiResponse,
   audio_url |-> NoUrl, transcript |-> ""]

\* (an insert whose error is not looked at)
UserInsertNeverThrows(ok) == FALSE

\* line 309: if (messageError) throw messageError
UserInsertThrows(ok) == ~ok

\* The insert of the user message answers: lines 309-319, up to the fetch of
\* generateAIResponse
InsertUserDone(c) ==
  /\ calls[c].pc = "insertUser"
  /\ \E ok \in InsertAnswers :
       /\ dbMessages' = IF ok THEN Append(dbMessages, UserRow(c)) ELSE dbMessages
       /\ IF UserInsertThrows(ok)
            THEN /\ Failed(c, "insert failed")
                 /\ calls' = [calls EXCEPT ![c].pc = "done", ![c].failedAt = "insertUser"]
                 /\ UNCHANGED messages
            ELSE /\ messages' = Append(messages, UserRow(c))
                 /\ calls' = [calls EXCEPT ![c].pc = "generate",
                                           ![c].reqs.generate = @ + 1]
                 /\ UNCHANGED <<toasts, saving, isProcessing>>
  /\ UNCHANGED <<pageState, openaiKey, storedKey, showKeyInput, storage, recVars, deletes, saveVars>>

\* The reply generation answers: generateAIResponse lines 135-163, then
\* lines 321-329
GenerateDone(c) ==
  /\ calls[c].pc = "generate"
  /\ \E res \in FetchResults :
       IF res = "ok"
         THEN \E text \in Replies :
                /\ calls' = [calls EXCEPT ![c].pc = "insertAssistant",
                                          ![c].aiResponse = text,
                                          ![c].reqs.insertAssistant = @ + 1]
                /\ UNCHANGED <<toasts, saving, isProcessing>>
         ELSE /\ Failed(c, FetchErrorMessage(res, "Failed to generate AI response"))
              /\ calls' = [calls EXCEPT ![c].pc = "done", ![c].failedAt = "generate"]
  /\ UNCHANGED <<pageState, openaiKey, storedKey, showKeyInput, messages, dbMessages,
                 storage, recVars, deletes, saveVars>>

\* (an assistant message shown whatever the insert answered)
AssistantShownAlways(ok) == TRUE

\* line 331: if (!aiMessageError)
AssistantShown(ok) == ok

\* The insert of the assistant message answers: lines 331-342 and finally;
\* aiMessageError is not thrown
InsertAssistantDone(c) ==
  /\ calls[c].pc = "insertAssistant"
  /\ \E ok \in InsertAnswers :
       /\ dbMessages' = IF ok THEN Append(dbMessages, AssistantRow(c)) ELSE dbMessages
       /\ messages' = IF AssistantShown(ok)
                        THEN Append(messages, AssistantRow(c))
                        ELSE messages
       /\ calls' = [calls EXCEPT ![c].pc = "done",
                                 ![c].failedAt = IF ok THEN "none" ELSE "insertAssistant"]
  /\ toasts' = toasts \cup
       {Toast(c, "Recording saved!",
              "Your voice note has been transcribed and AI has responded")}
  /\ saving' = FALSE
  /\ isProcessing' = FALSE
  /\ UNCHANGED <<pageState, openaiKey, storedKey, showKeyInput, storage, recVars, deletes, saveVars>>

(* ------------------------------ saveJournal ---------------------------- *)

\* null, undefined and '' of a text column: all are falsy at lines 407, 412
NoText == ""

Titles == {"Entry", "Renamed"}
Summaries == {"A summary"}
ImageUrls == {"https://image"}

\* the row createNewJournal inserts (JournalDashboard.tsx lines 55-61)
NewJournal ==
  [title |-> "Entry", status |-> "recording", summary |-> NoText, thumbnail_url |-> NoText]

\* rows of an earlier visit to the entry
EarlierRows ==
  << [call |-> 0, role |-> "user", content |-> "earlier",
      audio_url |-> PublicUrl(0), transcript |-> "earlier"],
     [call |-> 0, role |-> "assistant", content |-> "I see",
      audio_url |-> NoUrl, transcript |-> ""] >>

\* What the store holds when the page is opened: a new entry; an entry left
\* without saving; an entry saved when its illustration failed; an entry
\* saved with summary and illustration
StoredEntries ==
  { [row |-> NewJournal, rows |-> <<>>],
    [row |-> NewJournal, rows |-> EarlierRows],
    [row |-> [NewJournal EXCEPT !.status = "completed", !.summary = "An earlier summary"],
     rows |-> EarlierRows],
    [row |-> [NewJournal EXCEPT !.status = "completed", !.summary = "An earlier summary",
                                !.thumbnail_url = "https://earlier"],
     rows |-> EarlierRows] }

NewSave ==
  [pc |-> "none",           \* none, summary, description, image, update, done
   title |-> "",            \* title of the render whose saveJournal runs
   shown |-> 0,             \* messages.length of that render
   summary |-> NoText,      \* let summary
   thumbnailUrl |-> NoText, \* let thumbnailUrl
   issued |-> <<>>,         \* the requests sent, in order
   failedAt |-> "none",     \* the generation request that failed, if one did
   outcome |-> "none"]      \* none, saved, failed

SavesInFlight == {v \in SaveIds : saves[v].pc \notin {"none", "done"}}

\* onChange of the title input, line 483
ChangeTitle ==
  /\ pageState = "ready"
  /\ \E t \in Titles : t # title /\ title' = t
  /\ UNCHANGED <<pageState, openaiKey, storedKey, showKeyInput, isProcessing, saving,
                 messages, dbMessages, storage, calls, toasts, recVars, deletes,
                 journal, dbJournal, saves>>

\* (generation attempted whenever a credential is set)
ShouldGenerateKeyOnly(msgs, key) == key # NoKey

\* line 404: messages.length > 0 && openaiKey
ShouldGenerate(msgs, key) == Len(msgs) > 0 /\ key # NoKey

\* (everything is generated anew)
MissingAlways(text) == TRUE

\* lines 407 and 412: !summary, !thumbnailUrl
Missing(text) == text = NoText

\* (the illustration attempted before the summary)
StepAfterClickThumbnailFirst(generate, summary, thumbnailUrl) ==
  IF ~generate THEN "update"
  ELSE IF Missing(thumbnailUrl) THEN "description"
  ELSE IF Missing(summary) THEN "summary"
  ELSE "update"

\* lines 404-414 and 426: the first request saveJournal awaits
StepAfterClick(generate, summary, thumbnailUrl) ==
  IF ~generate THEN "update"
  ELSE IF Missing(summary) THEN "summary"
  ELSE IF Missing(thumbnailUrl) THEN "description"
  ELSE "update"

\* lines 412-414 and 426: the request after generateSummary returned
StepAfterSummary(thumbnailUrl) ==
  IF Missing(thumbnailUrl) THEN "description" ELSE "update"

\* the position moves to a request, which is sent
Issue(sv, step) == [sv EXCEPT !.pc = step, !.issued = Append(@, step)]

\* (a catch around each generation of its own: the illustration is still
\* attempted after the summary failed)
GenerationFailedContinues(v, step) ==
  /\ saves' = [saves EXCEPT ![v] =
       Issue([@ EXCEPT !.failedAt = step],
             IF step = "summary" THEN StepAfterSummary(@.thumbnailUrl) ELSE "update")]
  /\ toasts' = toasts \cup
       {Toast(0, "Note",
              "Failed to generate summary or thumbnail, but saving journal anyway")}

\* (a failed generation request that is sent again)
GenerationRetried(v, step) ==
  /\ saves' = [saves EXCEPT ![v] = Issue(@, step)]
  /\ UNCHANGED toasts

\* inner catch, lines 415-422, then the update is sent
GenerationFailed(v, step) ==
  /\ saves' = [saves EXCEPT ![v] = Issue([@ EXCEPT !.failedAt = step], "update")]
  /\ toasts' = toasts \cup
       {Toast(0, "Note",
              "Failed to generate summary or thumbnail, but saving journal anyway")}

\* the Save button is clicked: saveJournal, lines 396-414 or 426, up to its
\* first await
SaveJournal(v) ==
  /\ pageState = "ready"
  /\ ~saving
  /\ saves[v].pc = "none"
  /\ \A w \in SaveIds : w < v => saves[w].pc # "none"
  /\ saving' = TRUE
  /\ saves' = [saves EXCEPT ![v] =
       Issue([@ EXCEPT !.title = title,
                       !.shown = Len(messages),
                       !.summary = journal.summary,
                       !.thumbnailUrl = journal.thumbnail_url],
             StepAfterClick(ShouldGenerate(messages, openaiKey),
                            journal.summary, journal.thumbnail_url))]
  /\ UNCHANGED <<pageState, openaiKey, storedKey, showKeyInput, isProcessing,
                 messages, dbMessages, storage, calls, toasts, recVars, deletes,
                 journal, title, dbJournal>>

\* generateSummary answers: lines 195-200, then lines 412-426
SummaryDone(v) ==
  /\ saves[v].pc = "summary"
  /\ \E res \in FetchResults :
       IF res = "ok"
         THEN \E text \in Summaries :
                /\ saves' = [saves EXCEPT ![v] =
                     Issue([@ EXCEPT !.summary = text],
                           StepAfterSummary(saves[v].thumbnailUrl))]
                /\ UNCHANGED toasts
         ELSE GenerationFailed(v, "summary")
  /\ UNCHANGED <<pageState, openaiKey, storedKey, showKeyInput, isProcessing, saving,
                 messages, dbMessages, storage, calls, recVars, deletes,
                 journal, title, dbJournal>>

\* the description request of generateThumbnail answers: lines 234-242
DescriptionDone(v) ==
  /\ saves[v].pc = "description"
  /\ \E res \in FetchResults :
       IF res = "ok"
         THEN /\ saves' = [saves EXCEPT ![v] = Issue(@, "image")]
              /\ UNCHANGED toasts
         ELSE GenerationFailed(v, "description")
  /\ UNCHANGED <<pageState, openaiKey, storedKey, showKeyInput, isProcessing, saving,
                 messages, dbMessages, storage, calls, recVars, deletes,
                 journal, title, dbJournal>>

\* the image request of generateThumbnail answers: lines 257-262, then 426
ImageDone(v) ==
  /\ saves[v].pc = "image"
  /\ \E res \in FetchResults :
       IF res = "ok"
         THEN \E url \in ImageUrls :
                /\ saves' = [saves EXCEPT ![v] =
                     Issue([@ EXCEPT !.thumbnailUrl = url], "update")]
                /\ UNCHANGED toasts
         ELSE GenerationFailed(v, "image")
  /\ UNCHANGED <<pageState, openaiKey, storedKey, showKeyInput, isProcessing, saving,
                 messages, dbMessages, storage, calls, recVars, deletes,
                 journal, title, dbJournal>>

\* (an update that marks the entry as still being processed)
PayloadProcessing(sv) ==
  [title |-> sv.title, status |-> "processing",
   summary |-> sv.summary, thumbnail_url |-> sv.thumbnailUrl]

\* (an update that writes back what the entry had)
PayloadWithoutGenerated(sv) ==
  [title |-> sv.title, status |-> "completed",
   summary |-> journal.summary, thumbnail_url |-> journal.thumbnail_url]

\* lines 428-434: the columns the update writes
Payload(sv) ==
  [title |-> sv.title, status |-> "completed",
   summary |-> sv.summary, thumbnail_url |-> sv.thumbnailUrl]

\* .update(...).eq('id', id), lines 426-435: an update that matches no row
\* changes nothing and is no error
UpdateRow(row, payload) == IF row = NoJournal THEN row ELSE payload

\* the update answers: lines 437-454
UpdateDone(v) ==
  /\ saves[v].pc = "update"
  /\ \E ok \in BOOLEAN :
       IF ok
         THEN /\ dbJournal' = UpdateRow(dbJournal, Payload(saves[v]))
              /\ saves' = [saves EXCEPT ![v].pc = "done", ![v].outcome = "saved"]
              /\ toasts' = toasts \cup
                   {Toast(0, "Journal saved!",
                          "Your journal entry has been saved successfully")}
              /\ pageState' = "left"
         ELSE /\ saves' = [saves EXCEPT ![v].pc = "done", ![v].outcome = "failed"]
              /\ toasts' = toasts \cup {Toast(0, "Error", "Failed to save journal")}
              /\ UNCHANGED <<dbJournal, pageState>>
  /\ saving' = FALSE
  /\ UNCHANGED <<openaiKey, storedKey, showKeyInput, isProcessing,
                 messages, dbMessages, storage, calls, recVars, deletes, journal, title>>

(* ----------------------------- deleteJournal --------------------------- *)

NewDelete ==
  [pc |-> "none",           \* none, messages, journal, done
   issued |-> <<>>,         \* the delete requests sent, in order
   failedAt |-> "none",     \* the delete request that failed, if one did
   removed |-> 0,           \* the message rows its first request removed
   outcome |-> "none"]      \* none, deleted, failed

DeletesInFlight == {d \in DeleteIds : deletes[d].pc \notin {"none", "done"}}

\* catch and finally of deleteJournal, lines 384-392
DeleteFailed(d, step) ==
  /\ deletes' = [deletes EXCEPT ![d].pc = "done", ![d].outcome = "failed",
                                ![d].failedAt = step]
  /\ toasts' = toasts \cup {Toast(0, "Error", "Failed to delete journal")}
  /\ saving' = FALSE

\* the Delete button is clicked and the dialog confirmed: deleteJournal,
\* lines 357-366, up to the await of the first delete
DeleteJournal(d) ==
  /\ pageState = "ready"
  /\ deletes[d].pc = "none"
  /\ \A e \in DeleteIds : e < d => deletes[e].pc # "none"
  /\ saving' = TRUE
  /\ deletes' = [deletes EXCEPT ![d].pc = "messages", ![d].issued = <<"messages">>]
  /\ UNCHANGED <<pageState, openaiKey, storedKey, showKeyInput, isProcessing,
                 messages, dbMessages, storage, calls, toasts, recVars, saveVars>>

\* (a failed delete of the messages that is not looked at)
MessagesDeleteNeverThrows(ok) == FALSE

\* line 368: if (messagesError) throw messagesError
MessagesDeleteThrows(ok) == ~ok

\* the delete of the messages answers: lines 368-374
DeleteMessagesDone(d) ==
  /\ deletes[d].pc = "messages"
  /\ \E ok \in BOOLEAN :
       /\ dbMessages' = IF ok THEN <<>> ELSE dbMessages
       /\ IF MessagesDeleteThrows(ok)
            THEN DeleteFailed(d, "messages")
            ELSE /\ deletes' = [deletes EXCEPT ![d].pc = "journal",
                                               ![d].failedAt = IF ok THEN "none" ELSE "messages",
                                               ![d].removed = IF ok THEN Len(dbMessages) ELSE 0,
                                               ![d].issued = Append(@, "journal")]
                 /\ UNCHANGED <<toasts, saving>>
  /\ UNCHANGED <<pageState, openaiKey, storedKey, showKeyInput, isProcessing,
                 messages, storage, calls, recVars, saveVars>>

\* the store deletes an entry: the rows that refer to it go with it
CascadeDelete(rows) == <<>>

\* the delete of the entry answers: lines 376-392
DeleteEntryDone(d) ==
  /\ deletes[d].pc = "journal"
  /\ \E ok \in BOOLEAN :
       IF ok
         THEN /\ dbJournal' = NoJournal
              /\ dbMessages' = CascadeDelete(dbMessages)
              /\ deletes' = [deletes EXCEPT ![d].pc = "done", ![d].outcome = "deleted"]
              /\ toasts' = toasts \cup
                   {Toast(0, "Journal deleted",
                          "Your journal has been permanently deleted")}
              /\ pageState' = "left"
              /\ saving' = FALSE
         ELSE /\ DeleteFailed(d, "journal")
              /\ UNCHANGED <<dbJournal, dbMessages, pageState>>
  /\ UNCHANGED <<openaiKey, storedKey, showKeyInput, isProcessing,
                 messages, storage, calls, recVars, journal, title, saves>>

(* ------------------------- JournalEntry page: claims ------------------- *)

\* C10: handleRecordingComplete invoked while openaiKey is empty issues no
\* upload, transcription, generation or insert request, stores nothing,
\* leaves isProcessing and saving as they are (false when no other invocation
\* is in flight), shows the "API Key Required" toast and makes the
\* credential prompt visible.
C10_NoKeyNoCalls ==
  [][\A c \in CallIds :
       (HandleRecordingComplete(c) /\ openaiKey = NoKey) =>
         /\ calls'[c].pc = "done"
         /\ calls'[c].reqs = NoRequests
         /\ UNCHANGED <<isProcessing, saving, storage, dbMessages, messages>>
         /\ (InFlight = {} => (~isProcessing' /\ ~saving'))
         /\ showKeyInput'
         /\ \E t \in toasts' : t.by = c /\ t.title = "API Key Required"]_vars

C10_Witness ==
  \E c \in CallIds :
    /\ calls[c].noKey
    /\ calls[c].pc = "done"
    /\ calls[c].reqs = NoRequests
    /\ showKeyInput
    /\ ~isProcessing /\ ~saving

\* The rows of an invocation, in the order they were inserted or shown
RowsOf(rows, c) == SelectSeq(rows, LAMBDA r : r.call = c)

ShownBy(c, heading) == \E t \in toasts : t.by = c /\ t.title = heading

\* C11: every assistant row is preceded in journal_messages by a user row
\* of the same invocation.
C11_AssistantAfterUser ==
  \A i \in 1..Len(dbMessages) :
    dbMessages[i].role = "assistant" =>
      \E j \in 1..(i - 1) :
        /\ dbMessages[j].role = "user"
        /\ dbMessages[j].call = dbMessages[i].call

C11_Witness ==
  \E i \in 1..Len(dbMessages) :
    /\ dbMessages[i].role = "assistant"
    /\ \E c \in CallIds : calls[c].failedAt = "insertUser"

\* C12: an invocation whose five steps all succeeded has persisted exactly
\* two rows, the user row with the transcript and then the assistant row
\* with the reply, and has appended the same two to the displayed
\* conversation in that order.
C12_TwoMessagesInOrder ==
  \A c \in CallIds :
    (calls[c].pc = "done" /\ ~calls[c].noKey /\ calls[c].failedAt = "none") =>
      /\ RowsOf(dbMessages, c) = <<UserRow(c), AssistantRow(c)>>
      /\ RowsOf(messages, c) = <<UserRow(c), AssistantRow(c)>>
      /\ UserRow(c).content \in Transcripts
      /\ AssistantRow(c).content \in Replies

C12_Witness ==
  \E c \in CallIds :
    /\ calls[c].pc = "done" /\ ~calls[c].noKey /\ calls[c].failedAt = "none"
    /\ Len(RowsOf(dbMessages, c)) = 2
    /\ dbMessages[Len(dbMessages)].content = "Tell me more"

\* C13: an invocation whose transcription failed has persisted no row, has
\* issued no generation request, has shown an error that names the
\* transcription, and its uploaded artifact is still in storage.
C13_TranscriptionFailure ==
  \A c \in CallIds :
    calls[c].failedAt = "transcribe" =>
      /\ RowsOf(dbMessages, c) = <<>>
      /\ calls[c].reqs.insertUser = 0
      /\ calls[c].reqs.generate = 0
      /\ calls[c].reqs.insertAssistant = 0
      /\ FileName(c) \in storage
      /\ \A t \in toasts : t.by = c =>
           (t.title = "Error" /\ t.description = "Failed to transcribe audio")
      /\ ShownBy(c, "Error")

\* C14: an invocation whose reply generation or assistant insert failed
\* keeps its user row persisted and displayed, and no assistant message of
\* it is in the displayed conversation.
C14_UserMessageRemains ==
  \A c \in CallIds :
    calls[c].failedAt \in {"generate", "insertAssistant"} =>
      /\ RowsOf(dbMessages, c) = <<UserRow(c)>>
      /\ RowsOf(messages, c) = <<UserRow(c)>>

C14_Witness ==
  \E c, d \in CallIds :
    /\ calls[c].failedAt = "generate"
    /\ calls[d].failedAt = "insertAssistant"
    /\ Len(messages) = 2

\* C15: an invocation in which one of the five steps failed has shown an
\* error, and "Recording saved!" is shown only by an invocation whose five
\* steps all succeeded.
C15_ErrorUnlessAllSucceed ==
  \A c \in CallIds :
    /\ (calls[c].pc = "done" /\ calls[c].failedAt # "none") => ShownBy(c, "Error")
    /\ ShownBy(c, "Recording saved!") => calls[c].failedAt = "none"

\* C16: an invocation whose upload failed has issued no transcription and no
\* generation request, has persisted no row and has shown an error.
C16_UploadFailure ==
  \A c \in CallIds :
    calls[c].failedAt = "upload" =>
      /\ calls[c].reqs.transcribe = 0
      /\ calls[c].reqs.generate = 0
      /\ calls[c].reqs.insertUser = 0
      /\ calls[c].reqs.insertAssistant = 0
      /\ RowsOf(dbMessages, c) = <<>>
      /\ RowsOf(messages, c) = <<>>
      /\ FileName(c) \notin storage
      /\ ShownBy(c, "Error")

C16_Witness ==
  \E c \in CallIds :
    /\ calls[c].failedAt = "upload"
    /\ ShownBy(c, "Error")
    /\ ~isProcessing

IssuedAt(sv, step) ==
  IF \E i \in 1..Len(sv.issued) : sv.issued[i] = step
    THEN CHOOSE i \in 1..Len(sv.issued) : sv.issued[i] = step
    ELSE 0

\* the step in which the update of a saveJournal call answers with success,
\* the entry not having been deleted in the meantime
Saved(v) ==
  /\ saves[v].outcome = "none" /\ saves'[v].outcome = "saved"
  /\ EntryExists

\* C18: saveJournal clicked while the entry shows zero messages sends no
\* summary, description or image request, only the update, and when that
\* update succeeds it writes status completed, no summary and no
\* illustration.
C18_NoMessagesNoGeneration ==
  [][\A v \in SaveIds :
       (saves'[v].pc # "none" /\ saves'[v].shown = 0) =>
         /\ saves'[v].issued = <<"update">>
         /\ saves'[v].summary = NoText /\ saves'[v].thumbnailUrl = NoText
         /\ Saved(v) =>
              /\ dbJournal'.status = "completed"
              /\ dbJournal'.summary = NoText
              /\ dbJournal'.thumbnail_url = NoText]_vars

C18_Witness ==
  \E v \in SaveIds :
    /\ saves[v].shown = 0 /\ saves[v].outcome = "saved"
    /\ openaiKey # NoKey
    /\ dbJournal.status = "completed"

\* C19: a saveJournal call in which a generation request failed has shown
\* the note and has sent the update all the same; when that update succeeds
\* it writes status completed, the title of the click, and the summary and
\* illustration obtained before the failure.
C19_GenerationFailureStillSaves ==
  [][\A v \in SaveIds :
       saves'[v].failedAt # "none" =>
         /\ \E t \in toasts' : t.title = "Note"
         /\ IssuedAt(saves'[v], "update") = Len(saves'[v].issued)
         /\ (saves'[v].failedAt # "summary" /\ IssuedAt(saves'[v], "summary") > 0)
              => saves'[v].summary \in Summaries
         /\ Saved(v) =>
              /\ dbJournal'.status = "completed"
              /\ dbJournal'.title = saves[v].title
              /\ dbJournal'.summary = saves[v].summary
              /\ dbJournal'.thumbnail_url = saves[v].thumbnailUrl]_vars

C19_Witness ==
  \E v \in SaveIds :
    /\ saves[v].failedAt = "image"
    /\ saves[v].outcome = "saved"
    /\ dbJournal.summary \in Summaries
    /\ dbJournal.thumbnail_url = NoText
    /\ dbJournal.title = "Renamed"

\* C20: in a saveJournal call a summary request, when the call sends one,
\* comes before every illustration request and has answered with a summary
\* by then, and the image request is sent only after the description
\* request, which did not fail.
C20_SummaryBeforeIllustration ==
  \A v \in SaveIds :
    LET sv == saves[v] IN
      /\ IssuedAt(sv, "description") > 0 =>
           /\ ~Missing(sv.summary)
           /\ sv.failedAt # "summary"
           /\ IssuedAt(sv, "summary") < IssuedAt(sv, "description")
      /\ IssuedAt(sv, "image") > 0 =>
           /\ IssuedAt(sv, "description") > 0
           /\ IssuedAt(sv, "description") < IssuedAt(sv, "image")
           /\ sv.failedAt # "description"
      /\ sv.failedAt \in {"summary", "description"} => IssuedAt(sv, "image") = 0

C20_Witness ==
  \E v \in SaveIds :
    saves[v].issued = <<"summary", "description", "image", "update">>

\* C21: every user row an invocation persisted has role user, transcript
\* equal to content, both the text the transcription returned to that
\* invocation, and the public URL of the file the invocation uploaded.
C21_UserRowShape ==
  \A i \in 1..Len(dbMessages) :
    LET r == dbMessages[i] IN
      (r.role = "user" /\ r.call \in CallIds) =>
        /\ r.transcript = r.content
        /\ r.content \in Transcripts
        /\ r.content = calls[r.call].transcript
        /\ r.audio_url = PublicUrl(r.call)
        /\ FileName(r.call) \in storage

C21_Witness ==
  \E i, j \in 1..Len(dbMessages) :
    /\ i < j
    /\ dbMessages[i].role = "user" /\ dbMessages[j].role = "user"
    /\ dbMessages[i].call \in CallIds /\ dbMessages[j].call \in CallIds
    /\ dbMessages[i].audio_url # dbMessages[j].audio_url

C23_InteractiveWhenQuiet ==
  (InFlight = {} /\ SavesInFlight = {} /\ DeletesInFlight = {}) =>
    (~saving /\ ~isProcessing)

C23_Witness ==
  /\ InFlight = {} /\ SavesInFlight = {} /\ DeletesInFlight = {}
  /\ \E c \in CallIds : calls[c].failedAt \notin {"none", "insertAssistant"}
  /\ \E v \in SaveIds : saves[v].outcome = "failed"
  /\ \E d \in DeleteIds : deletes[d].outcome = "failed"
  /\ ~saving /\ ~isProcessing

\* how many times a saveJournal call sent a request
TimesIssued(sv, step) == Cardinality({i \in 1..Len(sv.issued) : sv.issued[i] = step})

\* the toasts an invocation of handleRecordingComplete has shown
ToastsBy(c) == {t \in toasts : t.by = c}

\* C24: an invocation of handleRecordingComplete sends each of its five
\* requests at most once and a saveJournal call sends each of its four
\* requests at most once; an invocation that has ended has shown exactly one
\* outcome, one that has not has shown none, and a saveJournal call has an
\* outcome exactly when it has ended.
C24_NoRetry ==
  /\ \A c \in CallIds :
       /\ calls[c].reqs.upload <= 1
       /\ calls[c].reqs.transcribe <= 1
       /\ calls[c].reqs.insertUser <= 1
       /\ calls[c].reqs.generate <= 1
       /\ calls[c].reqs.insertAssistant <= 1
       /\ Cardinality(ToastsBy(c)) = IF calls[c].pc = "done" THEN 1 ELSE 0
  /\ \A v \in SaveIds :
       /\ \A step \in {"summary", "description", "image", "update"} :
            TimesIssued(saves[v], step) <= 1
       /\ (saves[v].pc = "done") = (saves[v].outcome # "none")

C24_Witness ==
  /\ \E c \in CallIds :
       /\ calls[c].pc = "done"
       /\ calls[c].reqs = [upload |-> 1, transcribe |-> 1, insertUser |-> 1,
                           generate |-> 1, insertAssistant |-> 1]
  /\ \E v \in SaveIds :
       /\ saves[v].pc = "done"
       /\ Len(saves[v].issued) = 4

\* C28: a saveJournal call whose summary request failed sends no description
\* and no image request, and when its update succeeds it writes the summary
\* and the illustration the entry had when Save was clicked.
C28_SummaryFailureSkipsIllustration ==
  [][\A v \in SaveIds :
       saves'[v].failedAt = "summary" =>
         /\ IssuedAt(saves'[v], "description") = 0
         /\ IssuedAt(saves'[v], "image") = 0
         /\ Saved(v) =>
              /\ dbJournal'.summary = journal.summary
              /\ dbJournal'.thumbnail_url = journal.thumbnail_url]_vars

C28_Witness ==
  \E v \in SaveIds :
    /\ saves[v].failedAt = "summary"
    /\ saves[v].issued = <<"summary", "update">>
    /\ saves[v].outcome = "saved"
    /\ dbJournal.status = "completed" /\ dbJournal.summary = NoText

\* C29: a saveJournal call sends a summary request only for an entry without
\* a summary and description or image requests only for an entry without an
\* illustration; what the entry already has is written back as it is.
C29_ExistingKept ==
  [][\A v \in SaveIds :
       saves'[v].pc # "none" =>
         /\ journal.summary # NoText =>
              /\ IssuedAt(saves'[v], "summary") = 0
              /\ Saved(v) => dbJournal'.summary = journal.summary
         /\ journal.thumbnail_url # NoText =>
              /\ IssuedAt(saves'[v], "description") = 0
              /\ IssuedAt(saves'[v], "image") = 0
              /\ Saved(v) => dbJournal'.thumbnail_url = journal.thumbnail_url]_vars

C29_Witness ==
  \E v \in SaveIds :
    /\ saves[v].outcome = "saved"
    /\ saves[v].issued = <<"update">>
    /\ saves[v].shown > 0 /\ openaiKey # NoKey
    /\ dbJournal.summary = "An earlier summary"
    /\ dbJournal.thumbnail_url = "https://earlier"

\* an entry with a summary and no illustration: only the illustration is asked for
C29_WitnessSummaryOnly ==
  \E v \in SaveIds :
    /\ saves[v].outcome = "saved"
    /\ saves[v].issued = <<"description", "image", "update">>
    /\ dbJournal.summary = "An earlier summary"

\* C31: while a saveJournal call is in flight on the open page, saving is
\* true (the Save button is disabled), and no two saveJournal calls are in
\* flight together.
C31_SavingWhileFinalizing ==
  /\ (pageState = "ready" /\ SavesInFlight # {}) => saving
  /\ Cardinality(SavesInFlight) <= 1

\* the step in which deleteJournal call d reports failure
DeleteReportsFailure(d) ==
  deletes[d].outcome = "none" /\ deletes'[d].outcome = "failed"

\* C32: a deleteJournal call that reports failure has removed nothing: the
\* entry is in the store and the call removed none of its messages.
C32_FailedDeleteChangesNothing ==
  [][\A d \in DeleteIds :
       DeleteReportsFailure(d) =>
         /\ deletes'[d].removed = 0
         /\ dbJournal' = dbJournal
         /\ dbMessages' = dbMessages]_vars

\* deleteJournal call d has deleted the messages and has not reported failure
MessagesDeleted(d) ==
  deletes[d].pc = "journal" \/ deletes[d].outcome = "deleted"

\* C33: once a deleteJournal call has deleted the messages of the entry (and
\* has not reported failure), no message row is added to the store.
C33_NoMessageAfterDeletion ==
  [][(\E d \in DeleteIds : MessagesDeleted(d)) =>
       Len(dbMessages') <= Len(dbMessages)]_vars

\* str is empty or holds blanks only
OnlyBlanks(str) == \A i \in 1..Len(str) : str[i] = " "

\* t is str without the blanks at its two ends
IsTrimOf(t, str) ==
  /\ t # <<>> => (t[1] # " " /\ t[Len(t)] # " ")
  /\ \E a, b \in 0..Len(str) :
       /\ a + Len(t) + b = Len(str)
       /\ OnlyBlanks(SubSeq(str, 1, a))
       /\ SubSeq(str, a + 1, a + Len(t)) = t
       /\ OnlyBlanks(SubSeq(str, a + Len(t) + 1, Len(str)))

\* C35: whenever the page is loaded and the credential prompt is hidden, the
\* credential in memory is not empty; saveApiKey on an empty or blank input
\* stores nothing and leaves the prompt showing, and on any other input
\* stores the input without the blanks at its ends and hides the prompt.
C35_RecorderNeedsCredential ==
  /\ []((pageState = "ready" /\ ~showKeyInput) => openaiKey # NoKey)
  /\ [][SaveApiKey =>
          IF OnlyBlanks(openaiKey)
            THEN storedKey' = storedKey /\ showKeyInput'
            ELSE IsTrimOf(storedKey', openaiKey) /\ ~showKeyInput']_vars

C35_Witness ==
  /\ pageState = "ready" /\ ~showKeyInput
  /\ openaiKey = <<" ", "k">> /\ storedKey = <<"k">>
  /\ \E t \in toasts : t.title = "API Key Saved"

\* C36: an entry in the store has status recording or completed, and one
\* with status recording has no summary and no illustration; a step of
\* handleRecordingComplete leaves the entry's row as it is; every write to
\* the row of an existing entry is a saveJournal update and writes status
\* completed; a completed entry stays completed while it exists.
C36_StatusOnlyCompletes ==
  /\ [](EntryExists =>
          /\ dbJournal.status \in {"recording", "completed"}
          /\ dbJournal.status = "recording" =>
               (dbJournal.summary = NoText /\ dbJournal.thumbnail_url = NoText))
  /\ [][/\ (\E c \in CallIds : calls'[c] # calls[c]) => dbJournal' = dbJournal
        /\ (dbJournal' # dbJournal /\ dbJournal' # NoJournal) =>
             /\ dbJournal'.status = "completed"
             /\ \E v \in SaveIds : Saved(v)
        /\ (dbJournal.status = "completed" /\ dbJournal' # NoJournal) =>
             dbJournal'.status = "completed"]_vars

C36_Witness ==
  /\ journal.status = "recording"
  /\ \E c \in CallIds : calls[c].pc = "done" /\ calls[c].failedAt = "none" /\ ~calls[c].noKey
  /\ \E v \in SaveIds : saves[v].outcome = "saved"
  /\ dbJournal.status = "completed"

\* handleRecordingComplete has run to its end and the entry is still recording
C36_WitnessPipeline ==
  /\ \E c \in CallIds : calls[c].pc = "done" /\ calls[c].failedAt = "none" /\ ~calls[c].noKey
  /\ dbJournal = NewJournal /\ Len(dbMessages) = 2

\* The page as constructed: the initial values of its useState calls
PageInit ==
  /\ pageState = "mounting"
  /\ openaiKey = NoKey
  /\ showKeyInput = FALSE
  /\ isProcessing = FALSE
  /\ saving = FALSE
  /\ messages = <<>>
  /\ storage = {}
  /\ calls = [c \in CallIds |-> NewCall]
  /\ toasts = {}
  /\ journal = NoJournal
  /\ deletes = [d \in DeleteIds |-> NewDelete]
  /\ title = ""
  /\ saves = [v \in SaveIds |-> NewSave]

RecInit ==
  /\ mounted = TRUE
  /\ isRecording = FALSE
  /\ recordingTime = 0
  /\ streamRef = NoSession
  /\ mediaRecorderRef = NoSession
  /\ intervalRef = NoSession
  /\ chunksRef = <<>>
  /\ sessions = [s \in SessionIds |-> NewSession]
  /\ artifacts = <<>>
  /\ lastOp = Other

Init ==
  /\ platform \in Platforms
  /\ RecInit
  /\ PageInit
  /\ storedKey = <<"k">>
  /\ dbJournal = NewJournal
  /\ dbMessages = <<>>

Next ==
  \/ StartRecording
  \/ \E s \in SessionIds : GetUserMediaRejected(s)
  \/ \E s \in SessionIds : GetUserMediaGranted(s)
  \/ \E s \in SessionIds : DataAvailable(s)
  \/ \E s \in SessionIds : Tick(s)
  \/ StopRecording
  \/ CancelRecording
  \/ \E s \in SessionIds : RecorderStopTask(s)
  \/ Unmount

Spec == Init /\ [][Next]_vars

\* The page: a credential may or may not have been stored by an earlier visit
InitPage ==
  /\ platform = "ok"
  /\ RecInit
  /\ PageInit
  /\ storedKey \in {NoKey, <<"k">>}
  /\ dbJournal = NewJournal
  /\ dbMessages = <<>>

NextPage ==
  \/ MountEffect
  \/ FetchJournalDataDone
  \/ ChangeKeyInput
  \/ SaveApiKey
  \/ \E c \in CallIds : HandleRecordingComplete(c)
  \/ \E c \in CallIds : UploadDone(c)
  \/ \E c \in CallIds : TranscribeDone(c)
  \/ \E c \in CallIds : InsertUserDone(c)
  \/ \E c \in CallIds : GenerateDone(c)
  \/ \E c \in CallIds : InsertAssistantDone(c)

\* The recorder with the browser delivering the stop event it queued
SpecLive == Init /\ [][Next]_vars /\ \A s \in SessionIds : WF_vars(RecorderStopTask(s))

SpecPage == InitPage /\ [][NextPage]_vars

\* The page opened on a stored entry, with its recordings and its Save button
InitEntry ==
  /\ platform = "ok"
  /\ RecInit
  /\ PageInit
  /\ storedKey \in {NoKey, <<"k">>}
  /\ \E e \in StoredEntries : dbJournal = e.row /\ dbMessages = e.rows

NextEntry ==
  \/ MountEffect
  \/ FetchJournalDataDone
  \/ \E c \in CallIds \cap EntryCallIds : HandleRecordingComplete(c)
  \/ \E c \in CallIds \cap EntryCallIds : UploadDone(c)
  \/ \E c \in CallIds \cap EntryCallIds : TranscribeDone(c)
  \/ \E c \in CallIds \cap EntryCallIds : InsertUserDone(c)
  \/ \E c \in CallIds \cap EntryCallIds : GenerateDone(c)
  \/ \E c \in CallIds \cap EntryCallIds : InsertAssistantDone(c)
  \/ ChangeTitle
  \/ \E v \in SaveIds : SaveJournal(v)
  \/ \E v \in SaveIds : SummaryDone(v)
  \/ \E v \in SaveIds : DescriptionDone(v)
  \/ \E v \in SaveIds : ImageDone(v)
  \/ \E v \in SaveIds : UpdateDone(v)
  \/ \E d \in DeleteIds : DeleteJournal(d)
  \/ \E d \in DeleteIds : DeleteMessagesDone(d)
  \/ \E d \in DeleteIds : DeleteEntryDone(d)

SpecEntry == InitEntry /\ [][NextEntry]_vars

====
